---- MODULE Spec2Model ----
(***************************************************************************)
(* Model of the content-generation Lambda (src/src/handler.py,             *)
(* src/src/utils.py).  One invocation of handler(event, context) is a      *)
(* behaviour: the event and the process configuration are drawn in Init,   *)
(* the handler runs from its entry to its return (or to an escaping        *)
(* exception), and every outbound call (two invoke_model calls and one     *)
(* put_object per pair) is one step whose outcome the environment chooses. *)
(*                                                                         *)
(* Text is a sequence of characters: a printable ASCII character is the    *)
(* string of that character, another character is named by its code point  *)
(* ("U+212A"; Chr gives the character of a code point).  str.lower() is    *)
(* modelled on every code point, with the tables of the Unicode database.  *)
(* The value under "topics" or "categories" of a request object is an      *)
(* array of texts, a text, a number or a falsy scalar.                     *)
(* A request body text is described by what the decoders make              *)
(* of it: k says whether the text is JSON ("json", encoding the value v),  *)
(* the empty string, malformed JSON, JSON nested too deeply for the parser *)
(* ("deep"), base64 that is not JSON ("b64", of the text of kind `inner`   *)
(* encoding v; "b64badpad" with incorrect padding; "b64badutf8" whose      *)
(* bytes are not UTF-8) or base64 that is JSON as well ("b64json", such as *)
(* the text 1414: the JSON value v, and base64 of a text of kind `inner`). *)
(***************************************************************************)
EXTENDS Integers, Sequences, FiniteSets, TLC

VARIABLES
    event,          \* the gateway event handed to handler
    OUTPUT_BUCKET,  \* handler.py:22, read once at process start
    pc,             \* "start", "content", "meta", "save", "done", "raised"
    method,         \* handler.py:130
    body,           \* handler.py:137, the outcome of parse_request_body
    topics,         \* handler.py:139
    categories,     \* handler.py:140
    ti,             \* position of the outer loop (handler.py:159)
    ci,             \* position of the inner loop (handler.py:160)
    generated,      \* handler.py:156
    failed,         \* handler.py:157
    result,         \* handler.py:163, what generate_content is building
    calls,          \* every outbound call made so far, in order
    s3,             \* the objects of the bucket written by this invocation
    response,       \* what handler returned
    exc,            \* the exception that escaped handler, "" if none
    text,           \* input of slugify (specification SlugSpec)
    slug,           \* its result
    spc             \* "call" before slugify has run, "done" after

vars == <<event, OUTPUT_BUCKET, pc, method, body, topics, categories, ti, ci,
          result, generated, failed, calls, s3, response, exc, text, slug, spc>>

handlerVars == <<event, OUTPUT_BUCKET, pc, method, body, topics, categories,
                 ti, ci, result, generated, failed, calls, s3, response, exc>>

slugVars == <<text, slug, spc>>

(***************************************************************************)
(* Bounds of the model.                                                    *)
(***************************************************************************)
\* longest `topics` or `categories` list of a drawn request
MaxLen == 2
\* most pairs (len(topics) * len(categories)) of a drawn request
MaxPairs == 4
\* longest free tail of a text drawn for slugify
MaxTail == 3

(***************************************************************************)
(* Program constants.                                                      *)
(***************************************************************************)
\* utils.py:60  slug[:100]
SlugMax == 100
\* handler.py:79  .strip()[:160]
DescMax == 160

(***************************************************************************)
(* Characters.                                                             *)
(***************************************************************************)
LowerLetters == <<"a", "b", "c", "d", "e", "f", "g", "h", "i", "j", "k", "l", "m",
                 "n", "o", "p", "q", "r", "s", "t", "u", "v", "w", "x", "y", "z">>
DigitChars == {"0", "1", "2", "3", "4", "5", "6", "7", "8", "9"}

\* the printable ASCII characters, U+0020 to U+007E, in code point order
\* (GRAVE ACCENT is written by its name)
Ascii == <<" ", "!", "\"", "#", "$", "%", "&", "'", "(", ")", "*", "+", ",",
          "-", ".", "/", "0", "1", "2", "3", "4", "5", "6", "7", "8", "9",
          ":", ";", "<", "=", ">", "?", "@", "A", "B", "C", "D", "E", "F",
          "G", "H", "I", "J", "K", "L", "M", "N", "O", "P", "Q", "R", "S",
          "T", "U", "V", "W", "X", "Y", "Z", "[", "\\", "]", "^", "_", "U+0060",
          "a", "b", "c", "d", "e", "f", "g", "h", "i", "j", "k", "l", "m",
          "n", "o", "p", "q", "r", "s", "t", "u", "v", "w", "x", "y", "z",
          "{", "|", "}", "~">>
HexDigits == <<"0", "1", "2", "3", "4", "5", "6", "7", "8", "9",
              "A", "B", "C", "D", "E", "F">>

\* the name of code point n with at least four hexadecimal digits
Hex(n) ==
    (IF n >= 1048576 THEN HexDigits[((n \div 1048576) % 16) + 1] ELSE "")
    \o (IF n >= 65536 THEN HexDigits[((n \div 65536) % 16) + 1] ELSE "")
    \o HexDigits[((n \div 4096) % 16) + 1] \o HexDigits[((n \div 256) % 16) + 1]
    \o HexDigits[((n \div 16) % 16) + 1] \o HexDigits[(n % 16) + 1]

\* the character with code point n: itself when printable ASCII, else its
\* name "U+XXXX"
Chr(n) == IF n \in 32..126 THEN Ascii[n - 31] ELSE "U+" \o Hex(n)

\* characters outside ASCII that the model refers to by name: KELVIN SIGN,
\* LATIN CAPITAL LETTER I WITH DOT ABOVE, COMBINING DOT ABOVE, NO-BREAK
\* SPACE, GREEK CAPITAL LETTER SIGMA, GREEK SMALL LETTER FINAL SIGMA, LATIN
\* CAPITAL LETTER A WITH GRAVE
Kelvin == Chr(\h212A)
CapitalIDot == Chr(\h0130)
CombiningDot == Chr(\h0307)
NoBreakSpace == Chr(\h00A0)
CapitalSigma == Chr(\h03A3)
FinalSigma == Chr(\h03C2)
CapitalAGrave == Chr(\h00C0)

\* the simple lower-case mapping of str.lower() (Unicode 14.0.0, the
\* database of the interpreter the program runs on): <<first, last, step,
\* delta>> maps every code point c = first, first + step, ..., last to
\* c + delta.  Every code point not listed, U+0130 apart, maps to itself.
LowerRuns == <<
    <<\h0041, \h005A, 1, 32>>, <<\h00C0, \h00D6, 1, 32>>,
    <<\h00D8, \h00DE, 1, 32>>, <<\h0100, \h012E, 2, 1>>,
    <<\h0132, \h0136, 2, 1>>, <<\h0139, \h0147, 2, 1>>,
    <<\h014A, \h0176, 2, 1>>, <<\h0178, \h0178, 1, -121>>,
    <<\h0179, \h017D, 2, 1>>, <<\h0181, \h0181, 1, 210>>,
    <<\h0182, \h0184, 2, 1>>, <<\h0186, \h0186, 1, 206>>,
    <<\h0187, \h0187, 1, 1>>, <<\h0189, \h018A, 1, 205>>,
    <<\h018B, \h018B, 1, 1>>, <<\h018E, \h018E, 1, 79>>,
    <<\h018F, \h018F, 1, 202>>, <<\h0190, \h0190, 1, 203>>,
    <<\h0191, \h0191, 1, 1>>, <<\h0193, \h0193, 1, 205>>,
    <<\h0194, \h0194, 1, 207>>, <<\h0196, \h0196, 1, 211>>,
    <<\h0197, \h0197, 1, 209>>, <<\h0198, \h0198, 1, 1>>,
    <<\h019C, \h019C, 1, 211>>, <<\h019D, \h019D, 1, 213>>,
    <<\h019F, \h019F, 1, 214>>, <<\h01A0, \h01A4, 2, 1>>,
    <<\h01A6, \h01A6, 1, 218>>, <<\h01A7, \h01A7, 1, 1>>,
    <<\h01A9, \h01A9, 1, 218>>, <<\h01AC, \h01AC, 1, 1>>,
    <<\h01AE, \h01AE, 1, 218>>, <<\h01AF, \h01AF, 1, 1>>,
    <<\h01B1, \h01B2, 1, 217>>, <<\h01B3, \h01B5, 2, 1>>,
    <<\h01B7, \h01B7, 1, 219>>, <<\h01B8, \h01B8, 1, 1>>,
    <<\h01BC, \h01BC, 1, 1>>, <<\h01C4, \h01C4, 1, 2>>,
    <<\h01C5, \h01C5, 1, 1>>, <<\h01C7, \h01C7, 1, 2>>,
    <<\h01C8, \h01C8, 1, 1>>, <<\h01CA, \h01CA, 1, 2>>,
    <<\h01CB, \h01DB, 2, 1>>, <<\h01DE, \h01EE, 2, 1>>,
    <<\h01F1, \h01F1, 1, 2>>, <<\h01F2, \h01F4, 2, 1>>,
    <<\h01F6, \h01F6, 1, -97>>, <<\h01F7, \h01F7, 1, -56>>,
    <<\h01F8, \h021E, 2, 1>>, <<\h0220, \h0220, 1, -130>>,
    <<\h0222, \h0232, 2, 1>>, <<\h023A, \h023A, 1, 10795>>,
    <<\h023B, \h023B, 1, 1>>, <<\h023D, \h023D, 1, -163>>,
    <<\h023E, \h023E, 1, 10792>>, <<\h0241, \h0241, 1, 1>>,
    <<\h0243, \h0243, 1, -195>>, <<\h0244, \h0244, 1, 69>>,
    <<\h0245, \h0245, 1, 71>>, <<\h0246, \h024E, 2, 1>>,
    <<\h0370, \h0372, 2, 1>>, <<\h0376, \h0376, 1, 1>>,
    <<\h037F, \h037F, 1, 116>>, <<\h0386, \h0386, 1, 38>>,
    <<\h0388, \h038A, 1, 37>>, <<\h038C, \h038C, 1, 64>>,
    <<\h038E, \h038F, 1, 63>>, <<\h0391, \h03A1, 1, 32>>,
    <<\h03A3, \h03AB, 1, 32>>, <<\h03CF, \h03CF, 1, 8>>,
    <<\h03D8, \h03EE, 2, 1>>, <<\h03F4, \h03F4, 1, -60>>,
    <<\h03F7, \h03F7, 1, 1>>, <<\h03F9, \h03F9, 1, -7>>,
    <<\h03FA, \h03FA, 1, 1>>, <<\h03FD, \h03FF, 1, -130>>,
    <<\h0400, \h040F, 1, 80>>, <<\h0410, \h042F, 1, 32>>,
    <<\h0460, \h0480, 2, 1>>, <<\h048A, \h04BE, 2, 1>>,
    <<\h04C0, \h04C0, 1, 15>>, <<\h04C1, \h04CD, 2, 1>>,
    <<\h04D0, \h052E, 2, 1>>, <<\h0531, \h0556, 1, 48>>,
    <<\h10A0, \h10C5, 1, 7264>>, <<\h10C7, \h10C7, 1, 7264>>,
    <<\h10CD, \h10CD, 1, 7264>>, <<\h13A0, \h13EF, 1, 38864>>,
    <<\h13F0, \h13F5, 1, 8>>, <<\h1C90, \h1CBA, 1, -3008>>,
    <<\h1CBD, \h1CBF, 1, -3008>>, <<\h1E00, \h1E94, 2, 1>>,
    <<\h1E9E, \h1E9E, 1, -7615>>, <<\h1EA0, \h1EFE, 2, 1>>,
    <<\h1F08, \h1F0F, 1, -8>>, <<\h1F18, \h1F1D, 1, -8>>,
    <<\h1F28, \h1F2F, 1, -8>>, <<\h1F38, \h1F3F, 1, -8>>,
    <<\h1F48, \h1F4D, 1, -8>>, <<\h1F59, \h1F5F, 2, -8>>,
    <<\h1F68, \h1F6F, 1, -8>>, <<\h1F88, \h1F8F, 1, -8>>,
    <<\h1F98, \h1F9F, 1, -8>>, <<\h1FA8, \h1FAF, 1, -8>>,
    <<\h1FB8, \h1FB9, 1, -8>>, <<\h1FBA, \h1FBB, 1, -74>>,
    <<\h1FBC, \h1FBC, 1, -9>>, <<\h1FC8, \h1FCB, 1, -86>>,
    <<\h1FCC, \h1FCC, 1, -9>>, <<\h1FD8, \h1FD9, 1, -8>>,
    <<\h1FDA, \h1FDB, 1, -100>>, <<\h1FE8, \h1FE9, 1, -8>>,
    <<\h1FEA, \h1FEB, 1, -112>>, <<\h1FEC, \h1FEC, 1, -7>>,
    <<\h1FF8, \h1FF9, 1, -128>>, <<\h1FFA, \h1FFB, 1, -126>>,
    <<\h1FFC, \h1FFC, 1, -9>>, <<\h2126, \h2126, 1, -7517>>,
    <<\h212A, \h212A, 1, -8383>>, <<\h212B, \h212B, 1, -8262>>,
    <<\h2132, \h2132, 1, 28>>, <<\h2160, \h216F, 1, 16>>,
    <<\h2183, \h2183, 1, 1>>, <<\h24B6, \h24CF, 1, 26>>,
    <<\h2C00, \h2C2F, 1, 48>>, <<\h2C60, \h2C60, 1, 1>>,
    <<\h2C62, \h2C62, 1, -10743>>, <<\h2C63, \h2C63, 1, -3814>>,
    <<\h2C64, \h2C64, 1, -10727>>, <<\h2C67, \h2C6B, 2, 1>>,
    <<\h2C6D, \h2C6D, 1, -10780>>, <<\h2C6E, \h2C6E, 1, -10749>>,
    <<\h2C6F, \h2C6F, 1, -10783>>, <<\h2C70, \h2C70, 1, -10782>>,
    <<\h2C72, \h2C72, 1, 1>>, <<\h2C75, \h2C75, 1, 1>>,
    <<\h2C7E, \h2C7F, 1, -10815>>, <<\h2C80, \h2CE2, 2, 1>>,
    <<\h2CEB, \h2CED, 2, 1>>, <<\h2CF2, \h2CF2, 1, 1>>,
    <<\hA640, \hA66C, 2, 1>>, <<\hA680, \hA69A, 2, 1>>,
    <<\hA722, \hA72E, 2, 1>>, <<\hA732, \hA76E, 2, 1>>,
    <<\hA779, \hA77B, 2, 1>>, <<\hA77D, \hA77D, 1, -35332>>,
    <<\hA77E, \hA786, 2, 1>>, <<\hA78B, \hA78B, 1, 1>>,
    <<\hA78D, \hA78D, 1, -42280>>, <<\hA790, \hA792, 2, 1>>,
    <<\hA796, \hA7A8, 2, 1>>, <<\hA7AA, \hA7AA, 1, -42308>>,
    <<\hA7AB, \hA7AB, 1, -42319>>, <<\hA7AC, \hA7AC, 1, -42315>>,
    <<\hA7AD, \hA7AD, 1, -42305>>, <<\hA7AE, \hA7AE, 1, -42308>>,
    <<\hA7B0, \hA7B0, 1, -42258>>, <<\hA7B1, \hA7B1, 1, -42282>>,
    <<\hA7B2, \hA7B2, 1, -42261>>, <<\hA7B3, \hA7B3, 1, 928>>,
    <<\hA7B4, \hA7C2, 2, 1>>, <<\hA7C4, \hA7C4, 1, -48>>,
    <<\hA7C5, \hA7C5, 1, -42307>>, <<\hA7C6, \hA7C6, 1, -35384>>,
    <<\hA7C7, \hA7C9, 2, 1>>, <<\hA7D0, \hA7D0, 1, 1>>,
    <<\hA7D6, \hA7D8, 2, 1>>, <<\hA7F5, \hA7F5, 1, 1>>,
    <<\hFF21, \hFF3A, 1, 32>>, <<\h10400, \h10427, 1, 40>>,
    <<\h104B0, \h104D3, 1, 40>>, <<\h10570, \h1057A, 1, 39>>,
    <<\h1057C, \h1058A, 1, 39>>, <<\h1058C, \h10592, 1, 39>>,
    <<\h10594, \h10595, 1, 39>>, <<\h10C80, \h10CB2, 1, 64>>,
    <<\h118A0, \h118BF, 1, 32>>, <<\h16E40, \h16E5F, 1, 32>>,
    <<\h1E900, \h1E921, 1, 34>>>>

\* the case-ignorable code points, as ranges <<first, last>>
CaseIgnorableRanges == <<
    <<\h0027, \h0027>>, <<\h002E, \h002E>>, <<\h003A, \h003A>>, <<\h005E, \h005E>>,
    <<\h0060, \h0060>>, <<\h00A8, \h00A8>>, <<\h00AD, \h00AD>>, <<\h00AF, \h00AF>>,
    <<\h00B4, \h00B4>>, <<\h00B7, \h00B8>>, <<\h02B0, \h036F>>, <<\h0374, \h0375>>,
    <<\h037A, \h037A>>, <<\h0384, \h0385>>, <<\h0387, \h0387>>, <<\h0483, \h0489>>,
    <<\h0559, \h0559>>, <<\h055F, \h055F>>, <<\h0591, \h05BD>>, <<\h05BF, \h05BF>>,
    <<\h05C1, \h05C2>>, <<\h05C4, \h05C5>>, <<\h05C7, \h05C7>>, <<\h05F4, \h05F4>>,
    <<\h0600, \h0605>>, <<\h0610, \h061A>>, <<\h061C, \h061C>>, <<\h0640, \h0640>>,
    <<\h064B, \h065F>>, <<\h0670, \h0670>>, <<\h06D6, \h06DD>>, <<\h06DF, \h06E8>>,
    <<\h06EA, \h06ED>>, <<\h070F, \h070F>>, <<\h0711, \h0711>>, <<\h0730, \h074A>>,
    <<\h07A6, \h07B0>>, <<\h07EB, \h07F5>>, <<\h07FA, \h07FA>>, <<\h07FD, \h07FD>>,
    <<\h0816, \h082D>>, <<\h0859, \h085B>>, <<\h0888, \h0888>>, <<\h0890, \h0891>>,
    <<\h0898, \h089F>>, <<\h08C9, \h0902>>, <<\h093A, \h093A>>, <<\h093C, \h093C>>,
    <<\h0941, \h0948>>, <<\h094D, \h094D>>, <<\h0951, \h0957>>, <<\h0962, \h0963>>,
    <<\h0971, \h0971>>, <<\h0981, \h0981>>, <<\h09BC, \h09BC>>, <<\h09C1, \h09C4>>,
    <<\h09CD, \h09CD>>, <<\h09E2, \h09E3>>, <<\h09FE, \h09FE>>, <<\h0A01, \h0A02>>,
    <<\h0A3C, \h0A3C>>, <<\h0A41, \h0A42>>, <<\h0A47, \h0A48>>, <<\h0A4B, \h0A4D>>,
    <<\h0A51, \h0A51>>, <<\h0A70, \h0A71>>, <<\h0A75, \h0A75>>, <<\h0A81, \h0A82>>,
    <<\h0ABC, \h0ABC>>, <<\h0AC1, \h0AC5>>, <<\h0AC7, \h0AC8>>, <<\h0ACD, \h0ACD>>,
    <<\h0AE2, \h0AE3>>, <<\h0AFA, \h0AFF>>, <<\h0B01, \h0B01>>, <<\h0B3C, \h0B3C>>,
    <<\h0B3F, \h0B3F>>, <<\h0B41, \h0B44>>, <<\h0B4D, \h0B4D>>, <<\h0B55, \h0B56>>,
    <<\h0B62, \h0B63>>, <<\h0B82, \h0B82>>, <<\h0BC0, \h0BC0>>, <<\h0BCD, \h0BCD>>,
    <<\h0C00, \h0C00>>, <<\h0C04, \h0C04>>, <<\h0C3C, \h0C3C>>, <<\h0C3E, \h0C40>>,
    <<\h0C46, \h0C48>>, <<\h0C4A, \h0C4D>>, <<\h0C55, \h0C56>>, <<\h0C62, \h0C63>>,
    <<\h0C81, \h0C81>>, <<\h0CBC, \h0CBC>>, <<\h0CBF, \h0CBF>>, <<\h0CC6, \h0CC6>>,
    <<\h0CCC, \h0CCD>>, <<\h0CE2, \h0CE3>>, <<\h0D00, \h0D01>>, <<\h0D3B, \h0D3C>>,
    <<\h0D41, \h0D44>>, <<\h0D4D, \h0D4D>>, <<\h0D62, \h0D63>>, <<\h0D81, \h0D81>>,
    <<\h0DCA, \h0DCA>>, <<\h0DD2, \h0DD4>>, <<\h0DD6, \h0DD6>>, <<\h0E31, \h0E31>>,
    <<\h0E34, \h0E3A>>, <<\h0E46, \h0E4E>>, <<\h0EB1, \h0EB1>>, <<\h0EB4, \h0EBC>>,
    <<\h0EC6, \h0EC6>>, <<\h0EC8, \h0ECD>>, <<\h0F18, \h0F19>>, <<\h0F35, \h0F35>>,
    <<\h0F37, \h0F37>>, <<\h0F39, \h0F39>>, <<\h0F71, \h0F7E>>, <<\h0F80, \h0F84>>,
    <<\h0F86, \h0F87>>, <<\h0F8D, \h0F97>>, <<\h0F99, \h0FBC>>, <<\h0FC6, \h0FC6>>,
    <<\h102D, \h1030>>, <<\h1032, \h1037>>, <<\h1039, \h103A>>, <<\h103D, \h103E>>,
    <<\h1058, \h1059>>, <<\h105E, \h1060>>, <<\h1071, \h1074>>, <<\h1082, \h1082>>,
    <<\h1085, \h1086>>, <<\h108D, \h108D>>, <<\h109D, \h109D>>, <<\h10FC, \h10FC>>,
    <<\h135D, \h135F>>, <<\h1712, \h1714>>, <<\h1732, \h1733>>, <<\h1752, \h1753>>,
    <<\h1772, \h1773>>, <<\h17B4, \h17B5>>, <<\h17B7, \h17BD>>, <<\h17C6, \h17C6>>,
    <<\h17C9, \h17D3>>, <<\h17D7, \h17D7>>, <<\h17DD, \h17DD>>, <<\h180B, \h180F>>,
    <<\h1843, \h1843>>, <<\h1885, \h1886>>, <<\h18A9, \h18A9>>, <<\h1920, \h1922>>,
    <<\h1927, \h1928>>, <<\h1932, \h1932>>, <<\h1939, \h193B>>, <<\h1A17, \h1A18>>,
    <<\h1A1B, \h1A1B>>, <<\h1A56, \h1A56>>, <<\h1A58, \h1A5E>>, <<\h1A60, \h1A60>>,
    <<\h1A62, \h1A62>>, <<\h1A65, \h1A6C>>, <<\h1A73, \h1A7C>>, <<\h1A7F, \h1A7F>>,
    <<\h1AA7, \h1AA7>>, <<\h1AB0, \h1ACE>>, <<\h1B00, \h1B03>>, <<\h1B34, \h1B34>>,
    <<\h1B36, \h1B3A>>, <<\h1B3C, \h1B3C>>, <<\h1B42, \h1B42>>, <<\h1B6B, \h1B73>>,
    <<\h1B80, \h1B81>>, <<\h1BA2, \h1BA5>>, <<\h1BA8, \h1BA9>>, <<\h1BAB, \h1BAD>>,
    <<\h1BE6, \h1BE6>>, <<\h1BE8, \h1BE9>>, <<\h1BED, \h1BED>>, <<\h1BEF, \h1BF1>>,
    <<\h1C2C, \h1C33>>, <<\h1C36, \h1C37>>, <<\h1C78, \h1C7D>>, <<\h1CD0, \h1CD2>>,
    <<\h1CD4, \h1CE0>>, <<\h1CE2, \h1CE8>>, <<\h1CED, \h1CED>>, <<\h1CF4, \h1CF4>>,
    <<\h1CF8, \h1CF9>>, <<\h1D2C, \h1D6A>>, <<\h1D78, \h1D78>>, <<\h1D9B, \h1DFF>>,
    <<\h1FBD, \h1FBD>>, <<\h1FBF, \h1FC1>>, <<\h1FCD, \h1FCF>>, <<\h1FDD, \h1FDF>>,
    <<\h1FED, \h1FEF>>, <<\h1FFD, \h1FFE>>, <<\h200B, \h200F>>, <<\h2018, \h2019>>,
    <<\h2024, \h2024>>, <<\h2027, \h2027>>, <<\h202A, \h202E>>, <<\h2060, \h2064>>,
    <<\h2066, \h206F>>, <<\h2071, \h2071>>, <<\h207F, \h207F>>, <<\h2090, \h209C>>,
    <<\h20D0, \h20F0>>, <<\h2C7C, \h2C7D>>, <<\h2CEF, \h2CF1>>, <<\h2D6F, \h2D6F>>,
    <<\h2D7F, \h2D7F>>, <<\h2DE0, \h2DFF>>, <<\h2E2F, \h2E2F>>, <<\h3005, \h3005>>,
    <<\h302A, \h302D>>, <<\h3031, \h3035>>, <<\h303B, \h303B>>, <<\h3099, \h309E>>,
    <<\h30FC, \h30FE>>, <<\hA015, \hA015>>, <<\hA4F8, \hA4FD>>, <<\hA60C, \hA60C>>,
    <<\hA66F, \hA672>>, <<\hA674, \hA67D>>, <<\hA67F, \hA67F>>, <<\hA69C, \hA69F>>,
    <<\hA6F0, \hA6F1>>, <<\hA700, \hA721>>, <<\hA770, \hA770>>, <<\hA788, \hA78A>>,
    <<\hA7F2, \hA7F4>>, <<\hA7F8, \hA7F9>>, <<\hA802, \hA802>>, <<\hA806, \hA806>>,
    <<\hA80B, \hA80B>>, <<\hA825, \hA826>>, <<\hA82C, \hA82C>>, <<\hA8C4, \hA8C5>>,
    <<\hA8E0, \hA8F1>>, <<\hA8FF, \hA8FF>>, <<\hA926, \hA92D>>, <<\hA947, \hA951>>,
    <<\hA980, \hA982>>, <<\hA9B3, \hA9B3>>, <<\hA9B6, \hA9B9>>, <<\hA9BC, \hA9BD>>,
    <<\hA9CF, \hA9CF>>, <<\hA9E5, \hA9E6>>, <<\hAA29, \hAA2E>>, <<\hAA31, \hAA32>>,
    <<\hAA35, \hAA36>>, <<\hAA43, \hAA43>>, <<\hAA4C, \hAA4C>>, <<\hAA70, \hAA70>>,
    <<\hAA7C, \hAA7C>>, <<\hAAB0, \hAAB0>>, <<\hAAB2, \hAAB4>>, <<\hAAB7, \hAAB8>>,
    <<\hAABE, \hAABF>>, <<\hAAC1, \hAAC1>>, <<\hAADD, \hAADD>>, <<\hAAEC, \hAAED>>,
    <<\hAAF3, \hAAF4>>, <<\hAAF6, \hAAF6>>, <<\hAB5B, \hAB5F>>, <<\hAB69, \hAB6B>>,
    <<\hABE5, \hABE5>>, <<\hABE8, \hABE8>>, <<\hABED, \hABED>>, <<\hFB1E, \hFB1E>>,
    <<\hFBB2, \hFBC2>>, <<\hFE00, \hFE0F>>, <<\hFE13, \hFE13>>, <<\hFE20, \hFE2F>>,
    <<\hFE52, \hFE52>>, <<\hFE55, \hFE55>>, <<\hFEFF, \hFEFF>>, <<\hFF07, \hFF07>>,
    <<\hFF0E, \hFF0E>>, <<\hFF1A, \hFF1A>>, <<\hFF3E, \hFF3E>>, <<\hFF40, \hFF40>>,
    <<\hFF70, \hFF70>>, <<\hFF9E, \hFF9F>>, <<\hFFE3, \hFFE3>>, <<\hFFF9, \hFFFB>>,
    <<\h101FD, \h101FD>>, <<\h102E0, \h102E0>>, <<\h10376, \h1037A>>, <<\h10780, \h10785>>,
    <<\h10787, \h107B0>>, <<\h107B2, \h107BA>>, <<\h10A01, \h10A03>>, <<\h10A05, \h10A06>>,
    <<\h10A0C, \h10A0F>>, <<\h10A38, \h10A3A>>, <<\h10A3F, \h10A3F>>, <<\h10AE5, \h10AE6>>,
    <<\h10D24, \h10D27>>, <<\h10EAB, \h10EAC>>, <<\h10F46, \h10F50>>, <<\h10F82, \h10F85>>,
    <<\h11001, \h11001>>, <<\h11038, \h11046>>, <<\h11070, \h11070>>, <<\h11073, \h11074>>,
    <<\h1107F, \h11081>>, <<\h110B3, \h110B6>>, <<\h110B9, \h110BA>>, <<\h110BD, \h110BD>>,
    <<\h110C2, \h110C2>>, <<\h110CD, \h110CD>>, <<\h11100, \h11102>>, <<\h11127, \h1112B>>,
    <<\h1112D, \h11134>>, <<\h11173, \h11173>>, <<\h11180, \h11181>>, <<\h111B6, \h111BE>>,
    <<\h111C9, \h111CC>>, <<\h111CF, \h111CF>>, <<\h1122F, \h11231>>, <<\h11234, \h11234>>,
    <<\h11236, \h11237>>, <<\h1123E, \h1123E>>, <<\h112DF, \h112DF>>, <<\h112E3, \h112EA>>,
    <<\h11300, \h11301>>, <<\h1133B, \h1133C>>, <<\h11340, \h11340>>, <<\h11366, \h1136C>>,
    <<\h11370, \h11374>>, <<\h11438, \h1143F>>, <<\h11442, \h11444>>, <<\h11446, \h11446>>,
    <<\h1145E, \h1145E>>, <<\h114B3, \h114B8>>, <<\h114BA, \h114BA>>, <<\h114BF, \h114C0>>,
    <<\h114C2, \h114C3>>, <<\h115B2, \h115B5>>, <<\h115BC, \h115BD>>, <<\h115BF, \h115C0>>,
    <<\h115DC, \h115DD>>, <<\h11633, \h1163A>>, <<\h1163D, \h1163D>>, <<\h1163F, \h11640>>,
    <<\h116AB, \h116AB>>, <<\h116AD, \h116AD>>, <<\h116B0, \h116B5>>, <<\h116B7, \h116B7>>,
    <<\h1171D, \h1171F>>, <<\h11722, \h11725>>, <<\h11727, \h1172B>>, <<\h1182F, \h11837>>,
    <<\h11839, \h1183A>>, <<\h1193B, \h1193C>>, <<\h1193E, \h1193E>>, <<\h11943, \h11943>>,
    <<\h119D4, \h119D7>>, <<\h119DA, \h119DB>>, <<\h119E0, \h119E0>>, <<\h11A01, \h11A0A>>,
    <<\h11A33, \h11A38>>, <<\h11A3B, \h11A3E>>, <<\h11A47, \h11A47>>, <<\h11A51, \h11A56>>,
    <<\h11A59, \h11A5B>>, <<\h11A8A, \h11A96>>, <<\h11A98, \h11A99>>, <<\h11C30, \h11C36>>,
    <<\h11C38, \h11C3D>>, <<\h11C3F, \h11C3F>>, <<\h11C92, \h11CA7>>, <<\h11CAA, \h11CB0>>,
    <<\h11CB2, \h11CB3>>, <<\h11CB5, \h11CB6>>, <<\h11D31, \h11D36>>, <<\h11D3A, \h11D3A>>,
    <<\h11D3C, \h11D3D>>, <<\h11D3F, \h11D45>>, <<\h11D47, \h11D47>>, <<\h11D90, \h11D91>>,
    <<\h11D95, \h11D95>>, <<\h11D97, \h11D97>>, <<\h11EF3, \h11EF4>>, <<\h13430, \h13438>>,
    <<\h16AF0, \h16AF4>>, <<\h16B30, \h16B36>>, <<\h16B40, \h16B43>>, <<\h16F4F, \h16F4F>>,
    <<\h16F8F, \h16F9F>>, <<\h16FE0, \h16FE1>>, <<\h16FE3, \h16FE4>>, <<\h1AFF0, \h1AFF3>>,
    <<\h1AFF5, \h1AFFB>>, <<\h1AFFD, \h1AFFE>>, <<\h1BC9D, \h1BC9E>>, <<\h1BCA0, \h1BCA3>>,
    <<\h1CF00, \h1CF2D>>, <<\h1CF30, \h1CF46>>, <<\h1D167, \h1D169>>, <<\h1D173, \h1D182>>,
    <<\h1D185, \h1D18B>>, <<\h1D1AA, \h1D1AD>>, <<\h1D242, \h1D244>>, <<\h1DA00, \h1DA36>>,
    <<\h1DA3B, \h1DA6C>>, <<\h1DA75, \h1DA75>>, <<\h1DA84, \h1DA84>>, <<\h1DA9B, \h1DA9F>>,
    <<\h1DAA1, \h1DAAF>>, <<\h1E000, \h1E006>>, <<\h1E008, \h1E018>>, <<\h1E01B, \h1E021>>,
    <<\h1E023, \h1E024>>, <<\h1E026, \h1E02A>>, <<\h1E130, \h1E13D>>, <<\h1E2AE, \h1E2AE>>,
    <<\h1E2EC, \h1E2EF>>, <<\h1E8D0, \h1E8D6>>, <<\h1E944, \h1E94B>>, <<\h1F3FB, \h1F3FF>>,
    <<\hE0001, \hE0001>>, <<\hE0020, \hE007F>>, <<\hE0100, \hE01EF>>>>

\* the cased code points that are not case-ignorable, as ranges
CasedRanges == <<
    <<\h0041, \h005A>>, <<\h0061, \h007A>>, <<\h00AA, \h00AA>>, <<\h00B5, \h00B5>>,
    <<\h00BA, \h00BA>>, <<\h00C0, \h00D6>>, <<\h00D8, \h00F6>>, <<\h00F8, \h01BA>>,
    <<\h01BC, \h01BF>>, <<\h01C4, \h0293>>, <<\h0295, \h02AF>>, <<\h0370, \h0373>>,
    <<\h0376, \h0377>>, <<\h037B, \h037D>>, <<\h037F, \h037F>>, <<\h0386, \h0386>>,
    <<\h0388, \h038A>>, <<\h038C, \h038C>>, <<\h038E, \h03A1>>, <<\h03A3, \h03F5>>,
    <<\h03F7, \h0481>>, <<\h048A, \h052F>>, <<\h0531, \h0556>>, <<\h0560, \h0588>>,
    <<\h10A0, \h10C5>>, <<\h10C7, \h10C7>>, <<\h10CD, \h10CD>>, <<\h10D0, \h10FA>>,
    <<\h10FD, \h10FF>>, <<\h13A0, \h13F5>>, <<\h13F8, \h13FD>>, <<\h1C80, \h1C88>>,
    <<\h1C90, \h1CBA>>, <<\h1CBD, \h1CBF>>, <<\h1D00, \h1D2B>>, <<\h1D6B, \h1D77>>,
    <<\h1D79, \h1D9A>>, <<\h1E00, \h1F15>>, <<\h1F18, \h1F1D>>, <<\h1F20, \h1F45>>,
    <<\h1F48, \h1F4D>>, <<\h1F50, \h1F57>>, <<\h1F59, \h1F59>>, <<\h1F5B, \h1F5B>>,
    <<\h1F5D, \h1F5D>>, <<\h1F5F, \h1F7D>>, <<\h1F80, \h1FB4>>, <<\h1FB6, \h1FBC>>,
    <<\h1FBE, \h1FBE>>, <<\h1FC2, \h1FC4>>, <<\h1FC6, \h1FCC>>, <<\h1FD0, \h1FD3>>,
    <<\h1FD6, \h1FDB>>, <<\h1FE0, \h1FEC>>, <<\h1FF2, \h1FF4>>, <<\h1FF6, \h1FFC>>,
    <<\h2102, \h2102>>, <<\h2107, \h2107>>, <<\h210A, \h2113>>, <<\h2115, \h2115>>,
    <<\h2119, \h211D>>, <<\h2124, \h2124>>, <<\h2126, \h2126>>, <<\h2128, \h2128>>,
    <<\h212A, \h212D>>, <<\h212F, \h2134>>, <<\h2139, \h2139>>, <<\h213C, \h213F>>,
    <<\h2145, \h2149>>, <<\h214E, \h214E>>, <<\h2160, \h217F>>, <<\h2183, \h2184>>,
    <<\h24B6, \h24E9>>, <<\h2C00, \h2C7B>>, <<\h2C7E, \h2CE4>>, <<\h2CEB, \h2CEE>>,
    <<\h2CF2, \h2CF3>>, <<\h2D00, \h2D25>>, <<\h2D27, \h2D27>>, <<\h2D2D, \h2D2D>>,
    <<\hA640, \hA66D>>, <<\hA680, \hA69B>>, <<\hA722, \hA76F>>, <<\hA771, \hA787>>,
    <<\hA78B, \hA78E>>, <<\hA790, \hA7CA>>, <<\hA7D0, \hA7D1>>, <<\hA7D3, \hA7D3>>,
    <<\hA7D5, \hA7D9>>, <<\hA7F5, \hA7F6>>, <<\hA7FA, \hA7FA>>, <<\hAB30, \hAB5A>>,
    <<\hAB60, \hAB68>>, <<\hAB70, \hABBF>>, <<\hFB00, \hFB06>>, <<\hFB13, \hFB17>>,
    <<\hFF21, \hFF3A>>, <<\hFF41, \hFF5A>>, <<\h10400, \h1044F>>, <<\h104B0, \h104D3>>,
    <<\h104D8, \h104FB>>, <<\h10570, \h1057A>>, <<\h1057C, \h1058A>>, <<\h1058C, \h10592>>,
    <<\h10594, \h10595>>, <<\h10597, \h105A1>>, <<\h105A3, \h105B1>>, <<\h105B3, \h105B9>>,
    <<\h105BB, \h105BC>>, <<\h10C80, \h10CB2>>, <<\h10CC0, \h10CF2>>, <<\h118A0, \h118DF>>,
    <<\h16E40, \h16E7F>>, <<\h1D400, \h1D454>>, <<\h1D456, \h1D49C>>, <<\h1D49E, \h1D49F>>,
    <<\h1D4A2, \h1D4A2>>, <<\h1D4A5, \h1D4A6>>, <<\h1D4A9, \h1D4AC>>, <<\h1D4AE, \h1D4B9>>,
    <<\h1D4BB, \h1D4BB>>, <<\h1D4BD, \h1D4C3>>, <<\h1D4C5, \h1D505>>, <<\h1D507, \h1D50A>>,
    <<\h1D50D, \h1D514>>, <<\h1D516, \h1D51C>>, <<\h1D51E, \h1D539>>, <<\h1D53B, \h1D53E>>,
    <<\h1D540, \h1D544>>, <<\h1D546, \h1D546>>, <<\h1D54A, \h1D550>>, <<\h1D552, \h1D6A5>>,
    <<\h1D6A8, \h1D6C0>>, <<\h1D6C2, \h1D6DA>>, <<\h1D6DC, \h1D6FA>>, <<\h1D6FC, \h1D714>>,
    <<\h1D716, \h1D734>>, <<\h1D736, \h1D74E>>, <<\h1D750, \h1D76E>>, <<\h1D770, \h1D788>>,
    <<\h1D78A, \h1D7A8>>, <<\h1D7AA, \h1D7C2>>, <<\h1D7C4, \h1D7CB>>, <<\h1DF00, \h1DF09>>,
    <<\h1DF0B, \h1DF1E>>, <<\h1E900, \h1E943>>, <<\h1F130, \h1F149>>, <<\h1F150, \h1F169>>,
    <<\h1F170, \h1F189>>>>

\* the code points of a set of ranges, as characters
CharsOf(ranges) ==
    UNION {{Chr(n) : n \in ranges[i][1]..ranges[i][2]} : i \in 1..Len(ranges)}
CaseIgnorable == CharsOf(CaseIgnorableRanges)
Cased == CharsOf(CasedRanges)

\* the mapping of LowerRuns as pairs <<character, lower-case character>>
LowerPairs ==
    UNION {{<<Chr(n), Chr(n + LowerRuns[i][4])>> :
              n \in {m \in LowerRuns[i][1]..LowerRuns[i][2] :
                       (m - LowerRuns[i][1]) % LowerRuns[i][3] = 0}} :
           i \in 1..Len(LowerRuns)}
LowerMap ==
    [c \in {p[1] : p \in LowerPairs} |->
        (CHOOSE p \in LowerPairs : p[1] = c)[2]]

\* str.lower() on one character standing alone: the characters it becomes
\* (two for U+0130, one for every other character)
LowerChar(c) ==
    IF c = CapitalIDot THEN <<"i", CombiningDot>>
    ELSE IF c \in DOMAIN LowerMap THEN <<LowerMap[c]>>
    ELSE <<c>>

\* the final-sigma condition of str.lower() for position i of s: skipping
\* case-ignorable characters, the character before is cased and the
\* character after, if any, is not
IsFinalSigma(s, i) ==
    LET before == {j \in 1..(i - 1) : s[j] \notin CaseIgnorable}
        after == {j \in (i + 1)..Len(s) : s[j] \notin CaseIgnorable}
    IN  /\ before # {}
        /\ s[CHOOSE j \in before : \A k \in before : k <= j] \in Cased
        /\ \/ after = {}
           \/ s[CHOOSE j \in after : \A k \in after : j <= k] \notin Cased

\* str.lower() at position i of s: U+03A3 in final position becomes U+03C2,
\* every other character becomes what it becomes standing alone
LowerAt(s, i) ==
    IF s[i] = CapitalSigma /\ IsFinalSigma(s, i) THEN <<FinalSigma>>
    ELSE LowerChar(s[i])

\* str.lower(): every character replaced by its lowering, which has one or
\* two characters
Lower(s) ==
    LET slots == [n \in 1..(2 * Len(s)) |->
                     LET l == LowerAt(s, (n + 1) \div 2)
                         k == IF n % 2 = 1 THEN 1 ELSE 2
                     IN  IF k <= Len(l) THEN l[k] ELSE ""]
    IN  SelectSeq(slots, LAMBDA c : c # "")

\* the class [a-z0-9] of the pattern at utils.py:58
IsAlnum(c) ==
    (\E i \in 1..Len(LowerLetters) : LowerLetters[i] = c) \/ c \in DigitChars

\* re.sub(r'[^a-z0-9]+', '-', s): every maximal run of other characters
\* becomes one hyphen (the first character of a run is replaced by the
\* hyphen, the rest of the run is dropped)
SubRuns(s) ==
    LET marked == [i \in 1..Len(s) |->
                      IF IsAlnum(s[i]) THEN s[i]
                      ELSE IF i = 1 \/ IsAlnum(s[i - 1]) THEN "-"
                      ELSE ""]
    IN  SelectSeq(marked, LAMBDA c : c # "")

\* str.strip('-')
Strip(s) ==
    LET keep == {i \in 1..Len(s) : s[i] # "-"}
    IN  IF keep = {} THEN <<>>
        ELSE SubSeq(s, CHOOSE i \in keep : \A j \in keep : i <= j,
                       CHOOSE i \in keep : \A j \in keep : j <= i)

\* s[:n]
Prefix(s, n) == SubSeq(s, 1, IF Len(s) < n THEN Len(s) ELSE n)

\* utils.py:55-60
slugify(s) == Prefix(Strip(SubRuns(Lower(s))), SlugMax)

\* faulty variant: the category is left out of the file name
generate_filename_nocat(topic, category) ==
    slugify(topic) \o <<".", "h", "t", "m", "l">>

\* utils.py:63-66
generate_filename(topic, category) ==
    slugify(topic) \o <<"-">> \o category \o <<".", "h", "t", "m", "l">>

(***************************************************************************)
(* The category table (config.py, not among the sources): the keys are     *)
(* those of the handler's docstring, handler.py:120.                       *)
(***************************************************************************)
facts == <<"f", "a", "c", "t", "s">>
history == <<"h", "i", "s", "t", "o", "r", "y">>
bogus == <<"b", "o", "g", "u", "s">>

CATEGORY_CONFIG ==
    (facts :> [name |-> "Facts", prompt_template |-> "facts:{topic}"]) @@
    (history :> [name |-> "History", prompt_template |-> "history:{topic}"])

(***************************************************************************)
(* JSON values and body texts.                                             *)
(***************************************************************************)
\* the value under a key of the request object: t is "array" (val its
\* elements, texts), "string" (a non-empty text; val the one-character texts
\* that iterating it yields), "number" (one that is not zero, such as 5) or
\* "zero" (a falsy scalar: 0, false, null or the empty text)
NoField == [has |-> FALSE, t |-> "array", val |-> <<>>]
Field(v) == [has |-> TRUE, t |-> "array", val |-> v]
StringField(str) ==
    [has |-> TRUE, t |-> "string", val |-> [i \in 1..Len(str) |-> <<str[i]>>]]
ScalarField(kind) == [has |-> TRUE, t |-> kind, val |-> <<>>]

JObject(t, c) == [t |-> "object", topics |-> t, categories |-> c]
JOther(kind) == [t |-> kind, topics |-> NoField, categories |-> NoField]
EmptyObject == JObject(NoField, NoField)

\* dict.get(key, []), handler.py:139-140: what iterating the value yields
\* (nothing for the default [] and for a value that cannot be iterated)
GetList(field) == IF field.has THEN field.val ELSE <<>>

\* the truth value of dict.get(key, []), handler.py:142 and 145
Truthy(field) ==
    /\ field.has
    /\ field.t # "zero"
    /\ field.t \in {"array", "string"} => field.val # <<>>

\* whether `for x in value` (handler.py:149, 159) iterates or raises TypeError
Iterable(field) == ~field.has \/ field.t \in {"array", "string"}

JsonText(v) == [k |-> "json", inner |-> "", v |-> v]
OtherText(kind) == [k |-> kind, inner |-> "", v |-> JOther("null")]
Base64Of(t) == [k |-> "b64", inner |-> t.k, v |-> t.v]
\* a text that is JSON for v and base64 as well: of a text of kind `inner`
\* ("malformed": the text 1414) or of bytes that are not UTF-8 ("badutf8":
\* the text null).  Base64 made of digits never decodes to JSON.
Base64Json(inner, v) == [k |-> "b64json", inner |-> inner, v |-> v]

\* the default of event.get("body", "{}"), utils.py:31
DefaultBody == JsonText(EmptyObject)

Returned(v) == [raised |-> FALSE, exc |-> "", val |-> v]
Raised(e) == [raised |-> TRUE, exc |-> e, val |-> JOther("null")]

\* utils.py:39-42: json.loads inside a try that catches JSONDecodeError only;
\* on text nested too deeply json.loads raises RecursionError, which escapes
loads_or_empty(t) ==
    IF t.k \in {"json", "b64json"} THEN Returned(t.v)
    ELSE IF t.k = "deep" THEN Raised("RecursionError")
    ELSE Returned(EmptyObject)

\* base64.b64decode(body).decode('utf-8'), utils.py:36.  Characters outside
\* the base64 alphabet are discarded, so the text "{}" decodes to "".
b64decode_utf8(t) ==
    CASE t.k = "b64" -> [raised |-> FALSE, exc |-> "",
                         text |-> [k |-> t.inner, inner |-> "", v |-> t.v]]
      [] t.k = "b64json" /\ t.inner # "badutf8" ->
             [raised |-> FALSE, exc |-> "", text |-> OtherText(t.inner)]
      [] t.k = "b64json" /\ t.inner = "badutf8" ->
             [raised |-> TRUE, exc |-> "UnicodeDecodeError",
              text |-> OtherText("empty")]
      [] t.k = "b64badpad" -> [raised |-> TRUE, exc |-> "binascii.Error",
                               text |-> OtherText("empty")]
      [] t.k = "b64badutf8" -> [raised |-> TRUE, exc |-> "UnicodeDecodeError",
                                text |-> OtherText("empty")]
      [] t = DefaultBody -> [raised |-> FALSE, exc |-> "",
                             text |-> OtherText("empty")]

\* utils.py:29-43
parse_request_body(ev) ==
    LET b == IF ev.body.st = "absent"
             THEN [st |-> "str", text |-> DefaultBody]
             ELSE ev.body
        flagged == ev.isBase64Encoded.has /\ ev.isBase64Encoded.val
        truthy == b.st = "str" /\ b.text.k # "empty"
    IN  IF flagged /\ truthy
        THEN LET d == b64decode_utf8(b.text)
             IN  IF d.raised THEN Raised(d.exc) ELSE loads_or_empty(d.text)
        ELSE IF b.st = "str" THEN loads_or_empty(b.text)
        ELSE Returned(EmptyObject)

\* faulty variant: an inner context without a method falls back to the top level
get_http_method_fallback(ev) ==
    IF ev.requestContext.has /\ ev.requestContext.http.has
       /\ ev.requestContext.http.method.has
    THEN ev.requestContext.http.method.val
    ELSE IF ev.httpMethod.has THEN ev.httpMethod.val ELSE "GET"

\* utils.py:46-52
get_http_method(ev) ==
    IF ev.requestContext.has /\ ev.requestContext.http.has
    THEN IF ev.requestContext.http.method.has
         THEN ev.requestContext.http.method.val
         ELSE "GET"
    ELSE IF ev.httpMethod.has THEN ev.httpMethod.val ELSE "GET"

(***************************************************************************)
(* Responses.                                                              *)
(***************************************************************************)
CorsHeaders ==
    [ContentType |-> "application/json",
     AccessControlAllowOrigin |-> "*",
     AccessControlAllowHeaders |->
         "Content-Type,X-Amz-Date,Authorization,X-Api-Key,X-Amz-Security-Token",
     AccessControlAllowMethods |-> "GET,POST,OPTIONS"]

\* json.dumps(body, default=str), utils.py:25: the text that encodes payload
json_dumps(payload) == [k |-> "json", inner |-> "", v |-> payload]

\* utils.py:10-26, without extra headers
create_response(status_code, payload) ==
    [statusCode |-> status_code, headers |-> CorsHeaders,
     body |-> json_dumps(payload)]

NoResponse == [statusCode |-> 0]

(***************************************************************************)
(* The handler's payloads (handler.py:132-154, 174-194).                   *)
(***************************************************************************)
\* the empty dict {}
EmptyDict == <<>>

ErrorPayload(msg) == [error |-> msg, invalid |-> <<>>]
InvalidPayload(invalid) == [error |-> "Invalid categories", invalid |-> invalid]

\* handler.py:149
InvalidCategories(cats) ==
    SelectSeq(cats, LAMBDA c : c \notin DOMAIN CATEGORY_CONFIG)

\* faulty variant: the output bucket is never checked
EarlyReturnNoBucket(tp, cats, bucket) ==
    IF ~Truthy(tp)
    THEN create_response(400, ErrorPayload("At least one topic is required"))
    ELSE IF ~Truthy(cats)
    THEN create_response(400, ErrorPayload("At least one category is required"))
    ELSE IF ~Iterable(cats)
    THEN NoResponse
    ELSE IF InvalidCategories(GetList(cats)) # <<>>
    THEN create_response(400, InvalidPayload(InvalidCategories(GetList(cats))))
    ELSE NoResponse

\* handler.py:142-154: the response of a rejected request, NoResponse when
\* no check returns (the request goes on to the loops at handler.py:159, or
\* the comprehension at handler.py:149 raises)
EarlyReturn(tp, cats, bucket) ==
    IF ~Truthy(tp)
    THEN create_response(400, ErrorPayload("At least one topic is required"))
    ELSE IF ~Truthy(cats)
    THEN create_response(400, ErrorPayload("At least one category is required"))
    ELSE IF ~Iterable(cats)
    THEN NoResponse
    ELSE IF InvalidCategories(GetList(cats)) # <<>>
    THEN create_response(400, InvalidPayload(InvalidCategories(GetList(cats))))
    ELSE IF bucket = ""
    THEN create_response(500, ErrorPayload("OUTPUT_BUCKET_NAME not configured"))
    ELSE NoResponse

\* handler.py:149 and 159: TypeError, raised outside the try of
\* handler.py:161, when the comprehension over categories or the outer loop
\* over topics meets a value that cannot be iterated
IterationRaises(tp, cats) == ~Iterable(cats) \/ ~Iterable(tp)

\* handler.py:188-194, the payload
BatchOutcome(gen, fail) ==
    [success |-> Len(fail) = 0,
     generated |-> gen,
     failed |-> fail,
     total_generated |-> Len(gen),
     message |-> IF fail # <<>>
                 THEN <<"Generated ", Len(gen), " pages. ", Len(fail), " failed.">>
                 ELSE <<"Successfully generated ", Len(gen), " pages.">>]

\* faulty variant: a batch with failures is answered with a server error
FinishErrorStatus(gen, fail) ==
    create_response(IF fail = <<>> THEN 200 ELSE 500, BatchOutcome(gen, fail))

\* handler.py:188
Finish(gen, fail) == create_response(200, BatchOutcome(gen, fail))

\* faulty variant: the loops are nested the other way round
NextPairCategoriesOuter(t, c) ==
    IF t < Len(topics) THEN [more |-> TRUE, ti |-> t + 1, ci |-> c]
    ELSE IF c < Len(categories) THEN [more |-> TRUE, ti |-> 1, ci |-> c + 1]
    ELSE [more |-> FALSE, ti |-> t, ci |-> c]

\* handler.py:159-160: the pair after (topics[t], categories[c])
NextPair(t, c) ==
    IF c < Len(categories) THEN [more |-> TRUE, ti |-> t, ci |-> c + 1]
    ELSE IF t < Len(topics) THEN [more |-> TRUE, ti |-> t + 1, ci |-> 1]
    ELSE [more |-> FALSE, ti |-> t, ci |-> c]

\* the end of one iteration of the inner loop: on to the next pair, or out of
\* both loops to the return at handler.py:188
Continue(gen, fail) ==
    LET n == NextPair(ti, ci)
    IN  /\ generated' = gen
        /\ failed' = fail
        /\ ti' = n.ti
        /\ ci' = n.ci
        /\ IF n.more
           THEN pc' = "content" /\ response' = response
           ELSE pc' = "done" /\ response' = Finish(gen, fail)

FailureRecord(e) ==
    [topic |-> topics[ti], category |-> categories[ci], error |-> e]

\* faulty variant: the first failure ends the batch
CatchAbort(e) ==
    /\ generated' = generated
    /\ failed' = Append(failed, FailureRecord(e))
    /\ UNCHANGED <<ti, ci>>
    /\ pc' = "done"
    /\ response' = Finish(generated, Append(failed, FailureRecord(e)))

\* handler.py:181-186
Catch(e) == Continue(generated, Append(failed, FailureRecord(e)))

(***************************************************************************)
(* The outbound calls.  A completion is the text invoke_model returned,    *)
(* with the position of its call in `calls`; the renderer (templates.py,   *)
(* not among the sources) is a function of its five arguments.             *)
(***************************************************************************)
Call(op, part, ok) == [op |-> op, part |-> part, ti |-> ti, ci |-> ci, ok |-> ok]

\* what invoke_model returned: the text, and the position of the call
Completion(n, t) == [call |-> n, text |-> t]
NoCompletion == Completion(0, <<>>)

\* the texts the model lets invoke_model return: an article, and for the
\* description a text with white space around it and one longer than DescMax
ContentTexts == {<<"<", "h", "1", ">">>}
DescriptionTexts ==
    {<<" ", Chr(\h000A), "o", " ", "k", NoBreakSpace, Chr(\h0009)>>,
     [i \in 1..(DescMax + 2) |-> IF i = DescMax THEN " " ELSE "x"]}

\* the code points str.strip() removes (those for which str.isspace holds)
WhitespaceCodes ==
    (\h0009..\h000D) \cup (\h001C..\h0020) \cup {\h0085, \h00A0, \h1680}
    \cup (\h2000..\h200A) \cup {\h2028, \h2029, \h202F, \h205F, \h3000}
Whitespace == {Chr(n) : n \in WhitespaceCodes}

\* str.strip()
StripSpace(s) ==
    LET keep == {i \in 1..Len(s) : s[i] \notin Whitespace}
    IN  IF keep = {} THEN <<>>
        ELSE SubSeq(s, CHOOSE i \in keep : \A j \in keep : i <= j,
                       CHOOSE i \in keep : \A j \in keep : j <= i)

\* handler.py:79  generate_with_bedrock(meta_prompt).strip()[:160]
MetaDescription(c) == Completion(c.call, Prefix(StripSpace(c.text), DescMax))

NoResult ==
    [content |-> NoCompletion, meta_description |-> NoCompletion,
     category_name |-> ""]

render_html_page(topic, category, category_name, content, meta_description) ==
    [topic |-> topic, category |-> category, category_name |-> category_name,
     content |-> content, meta_description |-> meta_description]

OutputPrefix == <<"o", "u", "t", "p", "u", "t", "/">>

\* handler.py:99-100
ObjectKey(topic, category) == OutputPrefix \o generate_filename(topic, category)

\* handler.py:102-108
PutObject(store, key, html) ==
    [k \in DOMAIN store \cup {key} |->
        IF k = key
        THEN [Body |-> html, ContentType |-> "text/html",
              CacheControl |-> "public, max-age=86400"]
        ELSE store[k]]

(***************************************************************************)
(* The requests and events the model draws.                                *)
(***************************************************************************)
Methods == {"POST", "GET", "OPTIONS"}

NoMethod == [has |-> FALSE, val |-> ""]
MethodOpts == {NoMethod} \cup {[has |-> TRUE, val |-> m] : m \in Methods}

NoHttp == [has |-> FALSE, method |-> NoMethod]
RequestContexts ==
    {[has |-> FALSE, http |-> NoHttp], [has |-> TRUE, http |-> NoHttp]}
    \cup {[has |-> TRUE, http |-> [has |-> TRUE, method |-> m]] : m \in MethodOpts}

\* "A b" and "a-b" have the same slug, "c" U+212A "!" another one ("ck")
Topics == {<<"A", " ", "b">>, <<"a", "-", "b">>, <<"c", Kelvin, "!">>}
CategoryKeys == {facts, history, bogus}

ListsOf(S) == UNION {[1..n -> S] : n \in 0..MaxLen}

\* values that are not arrays: the text "ab", the number 5, a falsy scalar
ScalarFields ==
    {StringField(<<"a", "b">>), ScalarField("number"), ScalarField("zero")}
FieldsOf(S) == {NoField} \cup {Field(l) : l \in ListsOf(S)} \cup ScalarFields

RequestObjects ==
    {JObject(t, c) : t \in FieldsOf(Topics), c \in {f \in FieldsOf(CategoryKeys) : TRUE}}

SizedObjects ==
    {o \in RequestObjects : Len(o.topics.val) * Len(o.categories.val) <= MaxPairs}

\* the requests of at most one pair
SmallObjects ==
    {o \in SizedObjects : Len(o.topics.val) * Len(o.categories.val) <= 1}

PlainTexts ==
    {JsonText(o) : o \in SmallObjects}
    \cup {JsonText(JOther(kind)) : kind \in {"array", "number", "null"}}
    \cup {OtherText("empty"), OtherText("malformed"), OtherText("deep")}

Base64Texts ==
    {Base64Of(t) : t \in PlainTexts}
    \cup {OtherText("b64badpad"), OtherText("b64badutf8")}
    \cup {Base64Json("malformed", JOther("number")),
          Base64Json("badutf8", JOther("null"))}

AbsentBody == [st |-> "absent", text |-> OtherText("empty")]
NoneBody == [st |-> "none", text |-> OtherText("empty")]
StrBody(t) == [st |-> "str", text |-> t]

NoFlag == [has |-> FALSE, val |-> FALSE]
Flag(b) == [has |-> TRUE, val |-> b]

\* body and isBase64Encoded: a flagged body is base64 text (or falsy, or absent)
BodyForms ==
    {[body |-> b, isBase64Encoded |-> f] :
        b \in {AbsentBody, NoneBody} \cup {StrBody(t) : t \in PlainTexts \cup Base64Texts},
        f \in {NoFlag, Flag(FALSE)}}
    \cup
    {[body |-> b, isBase64Encoded |-> Flag(TRUE)] :
        b \in {AbsentBody, NoneBody, StrBody(OtherText("empty"))}
              \cup {StrBody(t) : t \in Base64Texts}}

\* every shape of the method fields and of the body, around small requests
ShapeEvents ==
    {[requestContext |-> rc, httpMethod |-> hm, body |-> bf.body,
      isBase64Encoded |-> bf.isBase64Encoded] :
        rc \in RequestContexts, hm \in MethodOpts, bf \in BodyForms}

\* every request, in a plain POST event of either gateway version
BatchEvents ==
    {[requestContext |-> rc, httpMethod |-> hm, body |-> StrBody(JsonText(o)),
      isBase64Encoded |-> NoFlag] :
        rc \in {[has |-> FALSE, http |-> NoHttp]},
        hm \in {[has |-> TRUE, val |-> "POST"]},
        o \in SizedObjects}
    \cup
    {[requestContext |-> rc, httpMethod |-> hm, body |-> StrBody(JsonText(o)),
      isBase64Encoded |-> NoFlag] :
        rc \in {[has |-> TRUE,
                 http |-> [has |-> TRUE, method |-> [has |-> TRUE, val |-> "POST"]]]},
        hm \in {NoMethod},
        o \in SizedObjects}

Events == ShapeEvents \cup BatchEvents

Buckets == {"", "pages-bucket"}

NotParsed == [raised |-> FALSE, exc |-> "", val |-> JOther("unparsed")]

(***************************************************************************)
(* handler: the state after the module is loaded and the event arrives.    *)
(***************************************************************************)
Init ==
    /\ event \in Events
    /\ OUTPUT_BUCKET \in Buckets
    /\ pc = "start"
    /\ method = ""
    /\ body = NotParsed
    /\ topics = <<>>
    /\ categories = <<>>
    /\ ti = 0
    /\ ci = 0
    /\ result = NoResult
    /\ generated = <<>>
    /\ failed = <<>>
    /\ calls = <<>>
    /\ s3 = <<>>
    /\ response = NoResponse
    /\ exc = ""
    /\ text = <<>>
    /\ slug = <<>>
    /\ spc = "idle"

\* handler.py:130-157: from the entry to the first pair, to an early return,
\* or to an exception that escapes
Validate ==
    /\ pc = "start"
    /\ LET m == get_http_method(event)
           p == parse_request_body(event)
           tp == p.val.topics
           cats == p.val.categories
       IN  /\ method' = m
           /\ IF m = "OPTIONS"
              THEN /\ response' = create_response(200, EmptyDict)
                   /\ pc' = "done"
                   /\ UNCHANGED <<body, topics, categories, ti, ci, exc>>
              ELSE IF m # "POST"
              THEN /\ response' = create_response(405, ErrorPayload("Method not allowed"))
                   /\ pc' = "done"
                   /\ UNCHANGED <<body, topics, categories, ti, ci, exc>>
              ELSE IF p.raised
              THEN /\ exc' = p.exc
                   /\ pc' = "raised"
                   /\ body' = p
                   /\ UNCHANGED <<topics, categories, ti, ci, response>>
              ELSE IF p.val.t # "object"
              THEN /\ exc' = "AttributeError"
                   /\ pc' = "raised"
                   /\ body' = p
                   /\ UNCHANGED <<topics, categories, ti, ci, response>>
              ELSE /\ body' = p
                   /\ topics' = GetList(tp)
                   /\ categories' = GetList(cats)
                   /\ response' = EarlyReturn(tp, cats, OUTPUT_BUCKET)
                   /\ IF EarlyReturn(tp, cats, OUTPUT_BUCKET) # NoResponse
                      THEN pc' = "done" /\ UNCHANGED <<ti, ci, exc>>
                      ELSE IF IterationRaises(tp, cats)
                      THEN /\ exc' = "TypeError"
                           /\ pc' = "raised"
                           /\ UNCHANGED <<ti, ci>>
                      ELSE pc' = "content" /\ ti' = 1 /\ ci' = 1 /\ exc' = exc
    /\ UNCHANGED <<event, OUTPUT_BUCKET, result, generated, failed, calls, s3>>
    /\ UNCHANGED slugVars

\* handler.py:163 into generate_content, handler.py:54-73: the category
\* lookup and the call for the article body
GenerateBody ==
    /\ pc = "content"
    /\ IF categories[ci] \notin DOMAIN CATEGORY_CONFIG
       THEN /\ Catch("Unknown category")
            /\ UNCHANGED <<calls, result>>
       ELSE \E ok \in BOOLEAN :
            /\ calls' = Append(calls, Call("invoke_model", "content", ok))
            /\ IF ok
               THEN /\ \E t \in ContentTexts :
                        result' = [content |-> Completion(Len(calls) + 1, t),
                                   meta_description |-> NoCompletion,
                                   category_name |->
                                       CATEGORY_CONFIG[categories[ci]].name]
                    /\ pc' = "meta"
                    /\ UNCHANGED <<ti, ci, generated, failed, response>>
               ELSE /\ Catch("invoke_model failed")
                    /\ result' = NoResult
    /\ UNCHANGED <<event, OUTPUT_BUCKET, method, body, topics, categories, s3, exc>>
    /\ UNCHANGED slugVars

\* faulty variant: a failed description call leaves the description empty and the
\* page is saved all the same
GenerateMetaLenient ==
    /\ pc = "meta"
    /\ \E ok \in BOOLEAN :
        /\ calls' = Append(calls, Call("invoke_model", "meta", ok))
        /\ \E t \in DescriptionTexts :
              result' = [result EXCEPT !.meta_description =
                            IF ok THEN MetaDescription(Completion(Len(calls) + 1, t))
                            ELSE NoCompletion]
        /\ pc' = "save"
        /\ UNCHANGED <<ti, ci, generated, failed, response>>
    /\ UNCHANGED <<event, OUTPUT_BUCKET, method, body, topics, categories, s3, exc>>
    /\ UNCHANGED slugVars

\* generate_content, handler.py:76-85: the call for the meta description
GenerateMeta ==
    /\ pc = "meta"
    /\ \E ok \in BOOLEAN :
        /\ calls' = Append(calls, Call("invoke_model", "meta", ok))
        /\ IF ok
           THEN /\ \E t \in DescriptionTexts :
                      result' = [result EXCEPT !.meta_description =
                                    MetaDescription(Completion(Len(calls) + 1, t))]
                /\ pc' = "save"
                /\ UNCHANGED <<ti, ci, generated, failed, response>>
           ELSE /\ Catch("invoke_model failed")
                /\ result' = NoResult
    /\ UNCHANGED <<event, OUTPUT_BUCKET, method, body, topics, categories, s3, exc>>
    /\ UNCHANGED slugVars

\* handler.py:166-179 with save_to_s3, handler.py:88-110: render, write the
\* object, record the page
SaveToS3 ==
    /\ pc = "save"
    /\ \E ok \in BOOLEAN :
        LET topic == topics[ti]
            category == categories[ci]
            html == render_html_page(topic, category, result.category_name,
                                     result.content, result.meta_description)
            key == ObjectKey(topic, category)
        IN  /\ calls' = Append(calls, Call("put_object", "object", ok))
            /\ result' = NoResult
            /\ IF ok
               THEN /\ s3' = PutObject(s3, key, html)
                    /\ Continue(Append(generated,
                                       [topic |-> topic, category |-> category,
                                        output_path |-> key,
                                        created_at |-> Len(calls) + 1]),
                                failed)
               ELSE /\ s3' = s3
                    /\ Catch("put_object failed")
    /\ UNCHANGED <<event, OUTPUT_BUCKET, method, body, topics, categories, exc>>
    /\ UNCHANGED slugVars

Next == Validate \/ GenerateBody \/ GenerateMeta \/ SaveToS3

Spec == Init /\ [][Next]_vars

(***************************************************************************)
(* slugify on its own: long texts, so that the truncation happens.         *)
(***************************************************************************)
SlugAlphabet ==
    {"a", "B", "7", "-", " ", Kelvin, CapitalIDot, CapitalSigma, CapitalAGrave}

\* a run of n letters "a"
Run(n) == [i \in 1..n |-> "a"]

SlugInputs ==
    {Run(n) \o t : n \in {0} \cup ((SlugMax - 3)..SlugMax),
                   t \in UNION {[1..m -> SlugAlphabet] : m \in 0..MaxTail}}

SlugInit ==
    /\ text \in SlugInputs
    /\ slug = <<>>
    /\ spc = "call"
    /\ event = [requestContext |-> [has |-> FALSE, http |-> NoHttp],
                httpMethod |-> NoMethod, body |-> AbsentBody,
                isBase64Encoded |-> NoFlag]
    /\ OUTPUT_BUCKET = ""
    /\ pc = "idle"
    /\ method = ""
    /\ body = NotParsed
    /\ topics = <<>>
    /\ categories = <<>>
    /\ ti = 0
    /\ ci = 0
    /\ result = NoResult
    /\ generated = <<>>
    /\ failed = <<>>
    /\ calls = <<>>
    /\ s3 = <<>>
    /\ response = NoResponse
    /\ exc = ""

Slugify ==
    /\ spc = "call"
    /\ slug' = slugify(text)
    /\ spc' = "done"
    /\ UNCHANGED text
    /\ UNCHANGED handlerVars

SlugNext == Slugify

SlugSpec == SlugInit /\ [][SlugNext]_vars

(***************************************************************************)
(* Vocabulary of the properties.                                           *)
(***************************************************************************)
\* the handler has run its checks and none of the returns of
\* handler.py:131-154 applies to the request: a POST whose body is an object
\* with truthy topics and categories, every category known, and the bucket
\* name set
PassesValidation ==
    /\ pc # "start"
    /\ method = "POST"
    /\ ~body.raised /\ body.val.t = "object"
    /\ Truthy(body.val.topics)
    /\ Truthy(body.val.categories)
    /\ Iterable(body.val.categories)
    /\ \A i \in 1..Len(categories) : categories[i] \in {facts, history}
    /\ OUTPUT_BUCKET # ""

\* the checks of handler.py:142 and 145 on the parsed request
NoTopics == ~Truthy(body.val.topics)
NoCategories == ~Truthy(body.val.categories)

Payload == response.body.v

\* the pairs of topics x categories, topics outer, by their positions
AllPairs ==
    [n \in 1..(Len(topics) * Len(categories)) |->
        <<((n - 1) \div Len(categories)) + 1, ((n - 1) % Len(categories)) + 1>>]

PairOf(call) == <<call.ti, call.ci>>
Ordinal(p) == (p[1] - 1) * Len(categories) + p[2]

CallsOf(p) == {k \in 1..Len(calls) : PairOf(calls[k]) = p}
PairRaised(p) == \E k \in CallsOf(p) : ~calls[k].ok
PairSaved(p) == \E k \in CallsOf(p) : calls[k].op = "put_object" /\ calls[k].ok

TopicCategory(p) == <<topics[p[1]], categories[p[2]]>>
Named(recs) == [k \in 1..Len(recs) |-> <<recs[k].topic, recs[k].category>>]
PairsNamed(ps) == [k \in 1..Len(ps) |-> TopicCategory(ps[k])]

Count(seq, x) == Cardinality({k \in 1..Len(seq) : seq[k] = x})

HtmlSuffix == <<".", "h", "t", "m", "l">>

(***************************************************************************)
(* C1: once a valid POST request has been answered, every pair of          *)
(* topics x categories has been processed and is in exactly one of         *)
(* `generated` and `failed`: in `failed` iff one of its calls raised.      *)
(***************************************************************************)
C1_Partition ==
    (PassesValidation /\ pc = "done") =>
        /\ Len(Payload.generated) + Len(Payload.failed)
              = Len(topics) * Len(categories)
        /\ \A n \in 1..Len(AllPairs) : CallsOf(AllPairs[n]) # {}
        /\ \A n \in 1..Len(AllPairs) :
              LET tc == TopicCategory(AllPairs[n])
              IN  /\ Count(Named(Payload.failed), tc)
                        = Count(PairsNamed(SelectSeq(AllPairs, PairRaised)), tc)
                  /\ Count(Named(Payload.generated), tc)
                        = Count(PairsNamed(SelectSeq(AllPairs,
                                    LAMBDA p : ~PairRaised(p))), tc)

\* a batch of four pairs answered with failures before and after successes
C1_Witness ==
    /\ PassesValidation /\ pc = "done"
    /\ Len(AllPairs) = 4
    /\ PairRaised(AllPairs[1]) /\ ~PairRaised(AllPairs[2])
    /\ PairRaised(AllPairs[3]) /\ ~PairRaised(AllPairs[4])

(***************************************************************************)
(* C2: the calls are made pair after pair in topics-outer,                 *)
(* categories-inner order, a pair's calls all before the next pair's, and  *)
(* `generated` and `failed` list their pairs in that order.                *)
(***************************************************************************)
C2_Order ==
    PassesValidation =>
        /\ \A k \in 1..Len(calls) : \A l \in 1..Len(calls) :
              k < l => Ordinal(PairOf(calls[k])) <= Ordinal(PairOf(calls[l]))
        /\ \A k \in 1..Len(calls) :
              (k < Len(calls) /\ PairOf(calls[k]) # PairOf(calls[k + 1])) =>
                  /\ Ordinal(PairOf(calls[k + 1])) = Ordinal(PairOf(calls[k])) + 1
                  /\ (~calls[k].ok \/ calls[k].op = "put_object")
        /\ Named(generated) = PairsNamed(SelectSeq(AllPairs, PairSaved))
        /\ Named(failed) = PairsNamed(SelectSeq(AllPairs, PairRaised))
        /\ pc = "done" => /\ Payload.generated = generated
                          /\ Payload.failed = failed

\* two topics and two categories, a failure on (1,2) and on (2,1)
C2_Witness ==
    /\ PassesValidation /\ pc = "done"
    /\ Len(topics) = 2 /\ Len(categories) = 2
    /\ topics[1] # topics[2] /\ categories[1] # categories[2]
    /\ Len(generated) = 2 /\ Len(failed) = 2
    /\ PairRaised(<<1, 2>>) /\ PairRaised(<<2, 1>>)

(***************************************************************************)
(* C3: an answer other than 200, and the answer to OPTIONS, is given       *)
(* before any generation call and any store write; 405 answers a method    *)
(* that is not POST, 400 a request without topics, without categories or   *)
(* with an unknown category, 500 an unconfigured bucket.                   *)
(***************************************************************************)
C3_FailFast ==
    (pc = "done" /\ (response.statusCode # 200 \/ method = "OPTIONS")) =>
        /\ calls = <<>>
        /\ s3 = <<>>
        /\ generated = <<>> /\ failed = <<>>
        /\ response.statusCode \in {200, 405, 400, 500}
        /\ response.statusCode = 200 => method = "OPTIONS"
        /\ response.statusCode = 405 => method \notin {"POST", "OPTIONS"}
        /\ response.statusCode = 400 =>
              \/ NoTopics
              \/ NoCategories
              \/ \E i \in 1..Len(categories) : categories[i] \notin {facts, history}
        /\ response.statusCode = 500 => OUTPUT_BUCKET = ""

\* a request rejected for an unknown category although the bucket is set
C3_Witness ==
    /\ pc = "done"
    /\ response.statusCode = 400
    /\ topics # <<>>
    /\ \E i \in 1..Len(categories) : categories[i] = bogus
    /\ OUTPUT_BUCKET # ""
    /\ calls = <<>>

(***************************************************************************)
(* C4: once the request has passed the checks of handler.py:131-154, no    *)
(* exception escapes and the handler can always go on until it returns;    *)
(* its answer is 200 with success iff `failed` is empty, total_generated   *)
(* the length of `generated`, and a message that names the number of       *)
(* failures iff there are failures.                                        *)
(***************************************************************************)
C4_Always200 ==
    PassesValidation =>
        /\ exc = ""
        /\ pc \in {"content", "meta", "save", "done"}
        /\ pc # "done" => response = NoResponse /\ ENABLED Next
        /\ pc = "done" =>
              /\ response.statusCode = 200
              /\ Payload.success = (Payload.failed = <<>>)
              /\ Payload.total_generated = Len(Payload.generated)
              /\ Payload.failed # <<>> =>
                    Payload.message = <<"Generated ", Len(Payload.generated),
                                        " pages. ", Len(Payload.failed), " failed.">>
              /\ Payload.failed = <<>> =>
                    Payload.message = <<"Successfully generated ",
                                        Len(Payload.generated), " pages.">>

(***************************************************************************)
(* C5 as stated: with an empty bucket name every request is answered 500.  *)
(***************************************************************************)
C5_Original ==
    (OUTPUT_BUCKET = "" /\ pc = "done") => response.statusCode = 500

(***************************************************************************)
(* C5 amended: with an empty bucket name no request reaches processing,    *)
(* and an answered request gets the status of the first check it fails:    *)
(* 200 for OPTIONS, 405 for another method than POST, 400 for empty        *)
(* topics, empty categories or an unknown category, and 500 for every      *)
(* POST request that passes those checks.                                  *)
(***************************************************************************)
C5_EmptyBucket ==
    OUTPUT_BUCKET = "" =>
        /\ pc \in {"start", "done", "raised"}
        /\ calls = <<>>
        /\ pc = "done" =>
              response.statusCode =
                  IF method = "OPTIONS" THEN 200
                  ELSE IF method # "POST" THEN 405
                  ELSE IF \/ NoTopics
                          \/ NoCategories
                          \/ \E i \in 1..Len(categories) :
                                categories[i] \notin {facts, history}
                  THEN 400
                  ELSE 500

\* a well-formed POST request answered 500
C5_Witness ==
    /\ OUTPUT_BUCKET = ""
    /\ pc = "done"
    /\ method = "POST"
    /\ Len(topics) = 2 /\ Len(categories) = 2
    /\ \A i \in 1..Len(categories) : categories[i] \in {facts, history}
    /\ response.statusCode = 500

(***************************************************************************)
(* C6: a pair is atomic.  The description call follows the pair's          *)
(* successful body call, the store write follows the pair's two            *)
(* successful generation calls, no call of a pair is repeated, a pair      *)
(* makes no call after one of its calls failed, and only a successful      *)
(* store write puts an object in the store.                                *)
(***************************************************************************)
C6_AtomicPair ==
    PassesValidation =>
        /\ \A k \in 1..Len(calls) :
              /\ calls[k].part = "meta" =>
                    /\ k > 1
                    /\ PairOf(calls[k - 1]) = PairOf(calls[k])
                    /\ calls[k - 1].part = "content" /\ calls[k - 1].ok
              /\ calls[k].op = "put_object" =>
                    /\ k > 2
                    /\ PairOf(calls[k - 1]) = PairOf(calls[k])
                    /\ calls[k - 1].part = "meta" /\ calls[k - 1].ok
                    /\ PairOf(calls[k - 2]) = PairOf(calls[k])
                    /\ calls[k - 2].part = "content" /\ calls[k - 2].ok
        /\ \A k \in 1..Len(calls) : \A l \in 1..Len(calls) :
              (k < l /\ PairOf(calls[k]) = PairOf(calls[l])) =>
                  /\ calls[k].ok
                  /\ calls[k].part # calls[l].part
        /\ \A n \in 1..Len(AllPairs) :
              /\ Cardinality({k \in CallsOf(AllPairs[n]) :
                                 calls[k].op = "invoke_model"}) <= 2
              /\ Cardinality({k \in CallsOf(AllPairs[n]) :
                                 calls[k].op = "put_object"}) <= 1
        /\ DOMAIN s3 =
              {OutputPrefix \o slugify(topics[calls[k].ti]) \o <<"-">>
                   \o categories[calls[k].ci] \o HtmlSuffix :
                   k \in {j \in 1..Len(calls) :
                             calls[j].op = "put_object" /\ calls[j].ok}}
        /\ Len(generated) =
              Cardinality({j \in 1..Len(calls) :
                              calls[j].op = "put_object" /\ calls[j].ok})

\* the body call of the only pair succeeded, its description call failed:
\* the pair is in `failed` and the store is empty
C6_Witness ==
    /\ PassesValidation /\ pc = "done"
    /\ Len(calls) = 2
    /\ calls[1].part = "content" /\ calls[1].ok
    /\ calls[2].part = "meta" /\ ~calls[2].ok
    /\ Len(failed) = 1 /\ generated = <<>>
    /\ s3 = <<>>

(***************************************************************************)
(* C7 as stated: the inner method of the routing context when there is     *)
(* one, in every other case the top-level method, "GET" only when          *)
(* neither is present.                                                     *)
(***************************************************************************)
C7_Original ==
    pc # "start" =>
        method =
            IF /\ event.requestContext.has
               /\ event.requestContext.http.has
               /\ event.requestContext.http.method.has
            THEN event.requestContext.http.method.val
            ELSE IF event.httpMethod.has THEN event.httpMethod.val
            ELSE "GET"

(***************************************************************************)
(* C7 amended: when the routing context has the inner http object, the     *)
(* result is its method field, or "GET" when that object has no method     *)
(* field, whatever the top-level field says; the top-level method field    *)
(* is used only when the routing context or its http object is missing,    *)
(* with "GET" when the top-level field is missing too.                     *)
(***************************************************************************)
C7_MethodOf ==
    pc # "start" =>
        LET http == event.requestContext.http
            v2 == event.requestContext.has /\ http.has
        IN  /\ (v2 /\ http.method.has) => method = http.method.val
            /\ (v2 /\ ~http.method.has) => method = "GET"
            /\ (~v2 /\ event.httpMethod.has) => method = event.httpMethod.val
            /\ (~v2 /\ ~event.httpMethod.has) => method = "GET"

\* an http object without a method beside a top-level POST: the result is GET
C7_Witness ==
    /\ pc = "done"
    /\ event.requestContext.has /\ event.requestContext.http.has
    /\ ~event.requestContext.http.method.has
    /\ event.httpMethod.has /\ event.httpMethod.val = "POST"
    /\ method = "GET"
    /\ response.statusCode = 405

(***************************************************************************)
(* C8: for a POST request parse_request_body does not raise and returns    *)
(* an object, so that the handler answers instead of failing.              *)
(***************************************************************************)
C8_BodyOf ==
    (pc # "start" /\ method = "POST") =>
        /\ ~body.raised
        /\ body.val.t = "object"
        /\ pc # "raised"

(***************************************************************************)
(* C9: the slug has at most 100 characters, all of [a-z0-9-], no two       *)
(* hyphens in a row, no hyphen at either end; the slug of the empty        *)
(* string is empty.                                                        *)
(***************************************************************************)
C9_Slug ==
    spc = "done" =>
        /\ Len(slug) <= 100
        /\ \A i \in 1..Len(slug) : IsAlnum(slug[i]) \/ slug[i] = "-"
        /\ \A i \in 1..(Len(slug) - 1) : ~(slug[i] = "-" /\ slug[i + 1] = "-")
        /\ slug # <<>> => slug[1] # "-" /\ slug[Len(slug)] # "-"
        /\ text = <<>> => slug = <<>>

(***************************************************************************)
(* C10: the output_path of every generated record is                       *)
(* "output/" + slug(topic) + "-" + category + ".html" and the store holds  *)
(* an object under it; the object under a key is the page of the last      *)
(* generated pair with that key, so there are at most as many objects as   *)
(* generated records.                                                      *)
(***************************************************************************)
C10_Keys ==
    PassesValidation =>
        /\ \A k \in 1..Len(generated) :
              LET g == generated[k]
              IN  /\ g.output_path = OutputPrefix \o slugify(g.topic) \o <<"-">>
                                        \o g.category \o HtmlSuffix
                  /\ g.output_path \in DOMAIN s3
                  /\ s3[g.output_path].ContentType = "text/html"
                  /\ (\A l \in (k + 1)..Len(generated) :
                         generated[l].output_path # g.output_path) =>
                        /\ s3[g.output_path].Body.topic = g.topic
                        /\ s3[g.output_path].Body.category = g.category
        /\ \A key \in DOMAIN s3 :
              \E k \in 1..Len(generated) : generated[k].output_path = key
        /\ Cardinality(DOMAIN s3) <= Len(generated)

\* two pairs with different topics of equal slug: two records, one object,
\* which is the page of the second pair
C10_Witness ==
    /\ PassesValidation /\ pc = "done"
    /\ Len(generated) = 2
    /\ generated[1].topic # generated[2].topic
    /\ generated[1].output_path = generated[2].output_path
    /\ Cardinality(DOMAIN s3) = 1
    /\ s3[generated[2].output_path].Body.topic = generated[2].topic

====
